---- MODULE Spec2Model ----
(***************************************************************************)
(* A model of the string-keyed open-addressing hash table of               *)
(* src/hashtable/ht.c: FNV-1a hashing, linear probing, growth by doubling, *)
(* key ownership, and the slot-scanning iterator; and of the binary tree   *)
(* of src/bst_c/binary_tree.c, a program of its own with its own state.    *)
(*                                                                         *)
(* Pointers are integers, NULL is 0.  The client's key strings live at the *)
(* addresses 1..NKeys; the copies strdup makes live in `heap`, above them; *)
(* the entry arrays and the table structure live at negative addresses.    *)
(* Values are opaque non-NULL addresses the table never dereferences.      *)
(***************************************************************************)
EXTENDS Integers, Sequences, FiniteSets, TLC

NULL == 0

\* The one table the client works with (the result of ht_create).  The
\* table structure is a heap object of its own, at an address apart from
\* the key strings, the values, the key copies and the entry arrays.
TABLE == 0 - 100

\* The C bool results of ht_next.
false == 0

true == 1

(***************************************************************************)
(* The client's keys, as byte strings.  The probe keys "p" and "x2" hash   *)
(* to slot 15 of a 16-slot store and "e" to slot 0, so that their chain    *)
(* collides and wraps around the end of the array, in an order that        *)
(* depends on the order of the calls.  The client sets the probe keys in   *)
(* any order with any value of ProbeValues; it inserts the filler keys in  *)
(* list order, each with a value of FillValues, to load the table up to    *)
(* and past its growth thresholds.  The fillers "n4" and "y1" both hash to *)
(* slot 31 of a 32-slot store; "a" and "ba", and "foo" and "aa", have the  *)
(* same home slot in stores of 16, 32 and 64 slots.                        *)
(***************************************************************************)
ProbeKeys ==
  << <<112>>, <<120, 50>>, <<101>> >>

FillerPool ==
  << <<97, 98>>, <<102, 111, 111>>, <<97>>, <<98, 97>>, <<107, 101, 121>>, <<99>>,
     <<100>>, <<102>>, <<110, 52>>, <<121, 49>>, <<103>>, <<97, 97>>,
     <<104>>, <<105>>, <<106>>, <<107>>, <<108>>, <<109>> >>

\* Number of filler keys the client has: 3 probe keys + 14 fillers = 17
\* keys, enough to grow the store twice (16 -> 32 -> 64).
MaxFill == 14

NProbe == Len(ProbeKeys)

Keys == ProbeKeys \o SubSeq(FillerPool, 1, MaxFill)

NKeys == Len(Keys)

KeyAddr == 1..NKeys

KeyStrings == {Keys[i] : i \in KeyAddr}

ProbeValues == {1, 2}

FillValues == {3}

Values == ProbeValues \cup FillValues

\* Width of size_t in bits.  The real width is 64; the doubling test of
\* ht_expand is kept, at a width the model checker can compute with.
SizeBits == 16

\* The narrow widths of size_t at which the doubled capacity wraps within
\* the client's keys: at NarrowSizeBits the first doubling (16 -> 32) wraps
\* to 0, at the next width the second one (32 -> 64).
NarrowSizeBits == 5

NarrowWidths == {NarrowSizeBits, NarrowSizeBits + 1}

\* The client that sets keys while it iterates starts from a table that
\* holds the first StartFill filler keys and takes it to at most
\* MaxInterleavedLength keys: the table grows (at 8 keys) in the middle of
\* an iteration.
StartFill == 7

MaxInterleavedLength == 9

\* The tree program adds up to MaxNodes values, each from TreeValues.
MaxNodes == 4

MaxVal == 2

TreeValues == (0 - 1)..MaxVal

(***************************************************************************)
(* 64-bit unsigned arithmetic, as eight 8-bit limbs, least significant     *)
(* first.                                                                  *)
(***************************************************************************)
\* 14695981039346656037 = 0xcbf29ce484222325
FNV_OFFSET == <<37, 35, 34, 132, 228, 156, 242, 203>>

\* 1099511628211 = 0x00000100000001b3
FNV_PRIME == <<179, 1, 0, 0, 0, 1, 0, 0>>

RECURSIVE BitXor(_, _)
BitXor(a, b) ==
  IF a = 0 THEN b
  ELSE IF b = 0 THEN a
  ELSE (((a % 2) + (b % 2)) % 2) + 2 * BitXor(a \div 2, b \div 2)

RECURSIVE BitAnd(_, _)
BitAnd(a, b) ==
  IF a = 0 \/ b = 0 THEN 0
  ELSE ((a % 2) * (b % 2)) + 2 * BitAnd(a \div 2, b \div 2)

\* hash ^= (uint64_t)(unsigned char)(*p)
Xor64Byte(h, byte) == [h EXCEPT ![1] = BitXor(h[1], byte)]

\* Column k (1..8) of the schoolbook product a * b.
RECURSIVE MulColumn(_, _, _, _)
MulColumn(a, b, k, i) ==
  IF i > k THEN 0 ELSE a[i] * b[k - i + 1] + MulColumn(a, b, k, i + 1)

\* Limbs k..8 of a * b mod 2^64, given the carry into column k.
RECURSIVE MulLimbs(_, _, _, _)
MulLimbs(a, b, k, carry) ==
  IF k > 8 THEN << >>
  ELSE LET t == MulColumn(a, b, k, 1) + carry
       IN  <<t % 256>> \o MulLimbs(a, b, k + 1, t \div 256)

\* hash *= FNV_PRIME, wrapping at 2^64
Mul64(a, b) == MulLimbs(a, b, 1, 0)

RECURSIVE fnv1a(_, _, _)
fnv1a(key, p, hash) ==
  IF p > Len(key) THEN hash
  ELSE fnv1a(key, p + 1, Mul64(Xor64Byte(hash, key[p]), FNV_PRIME))

\* The hash of every key string of the client, computed once.
hash_memo == [s \in KeyStrings |-> fnv1a(s, 1, FNV_OFFSET)]

hash_key(key) == hash_memo[key]

\* (size_t)(hash & (uint64_t)(capacity - 1)); capacity - 1 < 2^24 in the model.
HomeIndex(hash, capacity) ==
  BitAnd(hash[1] + 256 * hash[2] + 65536 * hash[3], capacity - 1)

(***************************************************************************)
(* The state.                                                              *)
(*   size_bits  the width of size_t in the build                           *)
(*   entries, capacity, length   the fields of struct ht                   *)
(*   array      the address of the entry array `entries` points to         *)
(*   frees      the calls of free(): address -> number of calls            *)
(*   heap       the key copies made by strdup: address -> byte string      *)
(*   it         the client's iterator (struct hti)                         *)
(*   last       the last call: its name, arguments and return value, the   *)
(*              path it took and whether it grew the table                 *)
(*   model      for every client key, the value of its last successful     *)
(*              ht_set, or NULL (the abstract map the table implements)    *)
(*   mutated    whether ht_set has been called since ht_iterator on a      *)
(*              table being iterated: "no", "set", or "grown" when such a  *)
(*              call has grown the table                                   *)
(*   yielded    the <<slot, key, value>> triples ht_next has produced      *)
(*              since ht_iterator, kept as long as the iteration is one    *)
(*              over a table that no ht_set has touched                    *)
(***************************************************************************)
VARIABLES size_bits, entries, capacity, length, array, frees, heap, it, last, model,
          mutated, yielded

\* The state of the hash table program.
htvars ==
  <<size_bits, entries, capacity, length, array, frees, heap, it, last, model, mutated,
    yielded>>

(***************************************************************************)
(* The state of the tree program (binary_tree.c).                          *)
(*   nodes      the nodes malloc has returned: address -> struct node      *)
(*   root       the variable `root` of main                                *)
(*   added      the values passed to the add calls that have returned      *)
(*   printed    the lines print_sorted has written                         *)
(*   tree_pc    "adding" while main adds, "printed" after print_sorted,    *)
(*              "crashed" when add has stored through a null pointer       *)
(***************************************************************************)
VARIABLES nodes, root, added, printed, tree_pc

treevars == <<nodes, root, added, printed, tree_pc>>

vars == <<htvars, treevars>>

tablevars == <<entries, capacity, length, array, frees, heap>>

\* The addresses that have been passed to free().
freed == DOMAIN frees

\* free(a) for every a of S, added to the calls f.
FreeAll(f, S) ==
  [a \in DOMAIN f \cup S |->
     (IF a \in DOMAIN f THEN f[a] ELSE 0) + (IF a \in S THEN 1 ELSE 0)]

INITIAL_CAPACITY == 16

\* calloc(capacity, sizeof(ht_entry)): every slot zeroed.
EmptyEntries(cap) == [i \in 0..(cap - 1) |-> [key |-> NULL, value |-> NULL]]

\* The entry arrays live at the negative addresses; calloc returns the next
\* one below the array in use.
FirstArray == 0 - 1

FreshArray(arr) == arr - 1

\* The byte string at address p: a client key, or a copy on the heap.
Str(h, p) == IF p \in KeyAddr THEN Keys[p] ELSE h[p]

strcmp(a, b) == IF a = b THEN 0 ELSE 1

\* strdup returns an address that is not in use.  Which one is the
\* allocator's business and the table never looks at it, so the model takes
\* the least free address of the form p + n * NKeys for a copy of the client
\* key at p: equal tables then have equal states.
RECURSIVE FreshAddr(_, _)
FreshAddr(h, a) ==
  IF a + NKeys \notin DOMAIN h THEN a + NKeys ELSE FreshAddr(h, a + NKeys)

strdup(h, p) ==
  LET a == FreshAddr(h, p)
  IN  [addr |-> a, heap |-> [x \in DOMAIN h \cup {a} |-> IF x = a THEN Str(h, p) ELSE h[x]]]

(***************************************************************************)
(* The probe loop shared by ht_get and ht_set_entry: from `index`, step to *)
(* the next slot (wrapping to 0 at capacity) while the slot is occupied by *)
(* another key.  The result is the slot the loop stops at.  `n` counts the *)
(* iterations: a loop that has seen every slot without stopping never      *)
(* stops, which is the result -1.                                          *)
(***************************************************************************)
\* The probe loop that passes over the stored keys without comparing them.
RECURSIVE ProbeLoop_no_match(_, _, _, _, _, _)
ProbeLoop_no_match(h, ents, cap, key, index, n) ==
  IF n > cap THEN -1
  ELSE IF ents[index].key = NULL THEN index
  ELSE ProbeLoop_no_match(h, ents, cap, key, IF index + 1 >= cap THEN 0 ELSE index + 1,
                          n + 1)

\* The probe loop that forgets to step to the next slot.
RECURSIVE ProbeLoop_no_step(_, _, _, _, _, _)
ProbeLoop_no_step(h, ents, cap, key, index, n) ==
  IF n > cap THEN -1
  ELSE IF ents[index].key = NULL THEN index
  ELSE IF strcmp(Str(h, key), Str(h, ents[index].key)) = 0 THEN index
  ELSE ProbeLoop_no_step(h, ents, cap, key, index, n + 1)

RECURSIVE ProbeLoop(_, _, _, _, _, _)
ProbeLoop(h, ents, cap, key, index, n) ==
  IF n > cap THEN -1
  ELSE IF ents[index].key = NULL THEN index
  ELSE IF strcmp(Str(h, key), Str(h, ents[index].key)) = 0 THEN index
  ELSE ProbeLoop(h, ents, cap, key, IF index + 1 >= cap THEN 0 ELSE index + 1, n + 1)

Probe(h, ents, cap, key) ==
  ProbeLoop(h, ents, cap, key, HomeIndex(hash_key(Str(h, key)), cap), 0)

\* ht_get without the key comparison: the value at the key's home slot.
ht_get_no_strcmp(h, ents, cap, table, key) ==
  IF table = NULL \/ key = NULL THEN NULL
  ELSE ents[HomeIndex(hash_key(Str(h, key)), cap)].value

\* ht_get: NULL for a NULL table or key, else the value at the slot the
\* probe stops at (NULL when that slot is empty).
ht_get(h, ents, cap, table, key) ==
  IF table = NULL \/ key = NULL THEN NULL
  ELSE LET index == Probe(h, ents, cap, key)
       IN  IF index = -1 THEN NULL ELSE ents[index].value

ht_length(table, len) == IF table = NULL THEN 0 ELSE len

\* ht_set_entry making a new key copy when it updates a stored key.
ht_set_entry_dup_on_update(h, ents, cap, key, value, has_plength, len, strdup_ok) ==
  LET index == Probe(h, ents, cap, key)
  IN  IF has_plength /\ ~strdup_ok
      THEN [entries |-> ents, heap |-> h, length |-> len, ret |-> NULL,
            path |-> "strdup_failed"]
      ELSE LET copy  == IF has_plength THEN strdup(h, key) ELSE [addr |-> key, heap |-> h]
               found == ents[index].key # NULL
           IN  [entries |-> [ents EXCEPT ![index] = [key |-> copy.addr, value |-> value]],
                heap |-> copy.heap,
                length |-> IF has_plength /\ ~found THEN len + 1 ELSE len,
                ret |-> copy.addr, path |-> IF found THEN "updated" ELSE "inserted"]

\* ht_set_entry counting the key before strdup has succeeded.
ht_set_entry_count_first(h, ents, cap, key, value, has_plength, len, strdup_ok) ==
  LET index == Probe(h, ents, cap, key)
  IN  IF ents[index].key # NULL
      THEN [entries |-> [ents EXCEPT ![index].value = value],
            heap |-> h, length |-> len, ret |-> ents[index].key, path |-> "updated"]
      ELSE IF has_plength /\ ~strdup_ok
      THEN [entries |-> ents, heap |-> h, length |-> len + 1, ret |-> NULL,
            path |-> "strdup_failed"]
      ELSE LET copy == IF has_plength THEN strdup(h, key) ELSE [addr |-> key, heap |-> h]
           IN  [entries |-> [ents EXCEPT ![index] = [key |-> copy.addr, value |-> value]],
                heap |-> copy.heap,
                length |-> IF has_plength THEN len + 1 ELSE len,
                ret |-> copy.addr, path |-> "inserted"]

\* ht_set_entry counting an update as a new key.
ht_set_entry_count_update(h, ents, cap, key, value, has_plength, len, strdup_ok) ==
  LET index == Probe(h, ents, cap, key)
  IN  IF ents[index].key # NULL
      THEN [entries |-> [ents EXCEPT ![index].value = value],
            heap |-> h, length |-> IF has_plength THEN len + 1 ELSE len,
            ret |-> ents[index].key, path |-> "updated"]
      ELSE IF has_plength /\ ~strdup_ok
      THEN [entries |-> ents, heap |-> h, length |-> len, ret |-> NULL,
            path |-> "strdup_failed"]
      ELSE LET copy == IF has_plength THEN strdup(h, key) ELSE [addr |-> key, heap |-> h]
           IN  [entries |-> [ents EXCEPT ![index] = [key |-> copy.addr, value |-> value]],
                heap |-> copy.heap,
                length |-> IF has_plength THEN len + 1 ELSE len,
                ret |-> copy.addr, path |-> "inserted"]

\* ht_set_entry storing the caller's key pointer instead of a copy.
ht_set_entry_no_copy(h, ents, cap, key, value, has_plength, len, strdup_ok) ==
  LET index == Probe(h, ents, cap, key)
  IN  IF ents[index].key # NULL
      THEN [entries |-> [ents EXCEPT ![index].value = value],
            heap |-> h, length |-> len, ret |-> ents[index].key, path |-> "updated"]
      ELSE [entries |-> [ents EXCEPT ![index] = [key |-> key, value |-> value]],
            heap |-> h,
            length |-> IF has_plength THEN len + 1 ELSE len,
            ret |-> key, path |-> "inserted"]

(***************************************************************************)
(* ht_set_entry(entries, capacity, key, value, plength).  plength is NULL  *)
(* (has_plength = FALSE) when ht_expand re-inserts an owned key.  The      *)
(* result carries the new entries, heap and length, the returned key       *)
(* pointer and the path taken.                                             *)
(***************************************************************************)
ht_set_entry(h, ents, cap, key, value, has_plength, len, strdup_ok) ==
  LET index == Probe(h, ents, cap, key)
  IN  IF index = -1
      THEN [entries |-> ents, heap |-> h, length |-> len, ret |-> NULL, path |-> "hang"]
      ELSE IF ents[index].key # NULL
      THEN [entries |-> [ents EXCEPT ![index].value = value],
            heap |-> h, length |-> len, ret |-> ents[index].key, path |-> "updated"]
      ELSE IF has_plength /\ ~strdup_ok
      THEN [entries |-> ents, heap |-> h, length |-> len, ret |-> NULL,
            path |-> "strdup_failed"]
      ELSE LET copy == IF has_plength THEN strdup(h, key) ELSE [addr |-> key, heap |-> h]
           IN  [entries |-> [ents EXCEPT ![index] = [key |-> copy.addr, value |-> value]],
                heap |-> copy.heap,
                length |-> IF has_plength THEN len + 1 ELSE len,
                ret |-> copy.addr, path |-> "inserted"]

\* The rehash loop copying every entry to the slot of the same index.
RECURSIVE Rehash_same_slot(_, _, _, _, _, _)
Rehash_same_slot(h, old, cap, i, new_entries, new_capacity) ==
  IF i >= cap THEN new_entries
  ELSE Rehash_same_slot(h, old, cap, i + 1, [new_entries EXCEPT ![i] = old[i]],
                        new_capacity)

\* The rehash loop of ht_expand: slots i..capacity-1 of the old array are
\* re-inserted, in index order, into new_entries.
RECURSIVE Rehash(_, _, _, _, _, _)
Rehash(h, old, cap, i, new_entries, new_capacity) ==
  IF i >= cap THEN new_entries
  ELSE IF old[i].key # NULL
  THEN Rehash(h, old, cap, i + 1,
              ht_set_entry(h, new_entries, new_capacity, old[i].key, old[i].value,
                           FALSE, 0, TRUE).entries,
              new_capacity)
  ELSE Rehash(h, old, cap, i + 1, new_entries, new_capacity)

\* Whether a probe of the rehash loop from slot i runs through the whole
\* new array without finding a slot, that is, never ends.
RECURSIVE RehashHangs(_, _, _, _, _, _)
RehashHangs(h, old, cap, i, new_entries, new_capacity) ==
  IF i >= cap THEN FALSE
  ELSE IF old[i].key # NULL
  THEN LET r == ht_set_entry(h, new_entries, new_capacity, old[i].key, old[i].value,
                             FALSE, 0, TRUE)
       IN  r.path = "hang" \/ RehashHangs(h, old, cap, i + 1, r.entries, new_capacity)
  ELSE RehashHangs(h, old, cap, i + 1, new_entries, new_capacity)

\* ht_expand with a rehash loop that starts at slot 1.
ht_expand_skip_first(h, ents, cap, arr, calloc_ok) ==
  LET new_capacity == (cap * 2) % (2 ^ size_bits)
  IN  IF new_capacity < cap
      THEN [ok |-> FALSE, entries |-> ents, capacity |-> cap, array |-> arr,
            released |-> {}, path |-> "overflow"]
      ELSE IF ~calloc_ok
      THEN [ok |-> FALSE, entries |-> ents, capacity |-> cap, array |-> arr,
            released |-> {}, path |-> "calloc_failed"]
      ELSE [ok |-> TRUE,
            entries |-> Rehash(h, ents, cap, 1, EmptyEntries(new_capacity), new_capacity),
            capacity |-> new_capacity, array |-> FreshArray(arr),
            released |-> {arr}, path |-> "grown"]

\* ht_expand growing by a fixed number of slots instead of doubling.
ht_expand_add(h, ents, cap, arr, calloc_ok) ==
  LET new_capacity == (cap + 2 * INITIAL_CAPACITY) % (2 ^ size_bits)
  IN  IF new_capacity < cap
      THEN [ok |-> FALSE, entries |-> ents, capacity |-> cap, array |-> arr,
            released |-> {}, path |-> "overflow"]
      ELSE IF ~calloc_ok
      THEN [ok |-> FALSE, entries |-> ents, capacity |-> cap, array |-> arr,
            released |-> {}, path |-> "calloc_failed"]
      ELSE [ok |-> TRUE,
            entries |-> Rehash(h, ents, cap, 0, EmptyEntries(new_capacity), new_capacity),
            capacity |-> new_capacity, array |-> FreshArray(arr),
            released |-> {arr}, path |-> "grown"]

\* ht_expand freeing the old array before it knows calloc has succeeded.
ht_expand_free_first(h, ents, cap, arr, calloc_ok) ==
  LET new_capacity == (cap * 2) % (2 ^ size_bits)
  IN  IF new_capacity < cap
      THEN [ok |-> FALSE, entries |-> ents, capacity |-> cap, array |-> arr,
            released |-> {}, path |-> "overflow"]
      ELSE IF ~calloc_ok
      THEN [ok |-> FALSE, entries |-> ents, capacity |-> cap, array |-> arr,
            released |-> {arr}, path |-> "calloc_failed"]
      ELSE [ok |-> TRUE,
            entries |-> Rehash(h, ents, cap, 0, EmptyEntries(new_capacity), new_capacity),
            capacity |-> new_capacity, array |-> FreshArray(arr),
            released |-> {arr}, path |-> "grown"]

\* ht_expand storing the doubled capacity before it has tested it.
ht_expand_store_first(h, ents, cap, arr, calloc_ok) ==
  LET new_capacity == (cap * 2) % (2 ^ size_bits)
  IN  IF new_capacity < cap
      THEN [ok |-> FALSE, entries |-> ents, capacity |-> new_capacity, array |-> arr,
            released |-> {}, path |-> "overflow"]
      ELSE IF ~calloc_ok
      THEN [ok |-> FALSE, entries |-> ents, capacity |-> cap, array |-> arr,
            released |-> {}, path |-> "calloc_failed"]
      ELSE [ok |-> TRUE,
            entries |-> Rehash(h, ents, cap, 0, EmptyEntries(new_capacity), new_capacity),
            capacity |-> new_capacity, array |-> FreshArray(arr),
            released |-> {arr}, path |-> "grown"]

\* ht_expand: the doubled capacity wraps at the width of size_t (size_bits).
\* On success the old array is freed and the new one takes its place.
ht_expand(h, ents, cap, arr, calloc_ok) ==
  LET new_capacity == (cap * 2) % (2 ^ size_bits)
  IN  IF new_capacity < cap
      THEN [ok |-> FALSE, entries |-> ents, capacity |-> cap, array |-> arr,
            released |-> {}, path |-> "overflow"]
      ELSE IF ~calloc_ok
      THEN [ok |-> FALSE, entries |-> ents, capacity |-> cap, array |-> arr,
            released |-> {}, path |-> "calloc_failed"]
      ELSE [ok |-> TRUE,
            entries |-> Rehash(h, ents, cap, 0, EmptyEntries(new_capacity), new_capacity),
            capacity |-> new_capacity, array |-> FreshArray(arr),
            released |-> {arr}, path |-> "grown"]

\* ht_set growing only once the table is more than half full.
ht_set_late_grow(h, ents, cap, len, arr, table, key, value, assert_on, calloc_ok, strdup_ok) ==
  IF assert_on /\ value = NULL
  THEN [entries |-> ents, capacity |-> cap, length |-> len, array |-> arr,
        released |-> {}, heap |-> h, ret |-> NULL, path |-> "abort", grew |-> FALSE]
  ELSE IF table = NULL \/ key = NULL \/ value = NULL
  THEN [entries |-> ents, capacity |-> cap, length |-> len, array |-> arr,
        released |-> {}, heap |-> h, ret |-> NULL, path |-> "invalid", grew |-> FALSE]
  ELSE LET grow == len > cap \div 2
           ex   == IF grow THEN ht_expand(h, ents, cap, arr, calloc_ok)
                   ELSE [ok |-> TRUE, entries |-> ents, capacity |-> cap, array |-> arr,
                         released |-> {}, path |-> "none"]
       IN  IF ~ex.ok
           THEN [entries |-> ex.entries, capacity |-> ex.capacity, length |-> len,
                 array |-> ex.array, released |-> ex.released, heap |-> h,
                 ret |-> NULL, path |-> ex.path, grew |-> FALSE]
           ELSE LET r == ht_set_entry(h, ex.entries, ex.capacity, key, value, TRUE, len,
                                      strdup_ok)
                IN  [entries |-> r.entries, capacity |-> ex.capacity, length |-> r.length,
                     array |-> ex.array, released |-> ex.released, heap |-> r.heap,
                     ret |-> r.ret, path |-> r.path, grew |-> grow]

\* ht_set asserting the key as well as the value.
ht_set_assert_key(h, ents, cap, len, arr, table, key, value, assert_on, calloc_ok, strdup_ok) ==
  IF assert_on /\ (value = NULL \/ key = NULL)
  THEN [entries |-> ents, capacity |-> cap, length |-> len, array |-> arr,
        released |-> {}, heap |-> h, ret |-> NULL, path |-> "abort", grew |-> FALSE]
  ELSE IF table = NULL \/ key = NULL \/ value = NULL
  THEN [entries |-> ents, capacity |-> cap, length |-> len, array |-> arr,
        released |-> {}, heap |-> h, ret |-> NULL, path |-> "invalid", grew |-> FALSE]
  ELSE LET grow == len >= cap \div 2
           ex   == IF grow THEN ht_expand(h, ents, cap, arr, calloc_ok)
                   ELSE [ok |-> TRUE, entries |-> ents, capacity |-> cap, array |-> arr,
                         released |-> {}, path |-> "none"]
       IN  IF ~ex.ok
           THEN [entries |-> ex.entries, capacity |-> ex.capacity, length |-> len,
                 array |-> ex.array, released |-> ex.released, heap |-> h,
                 ret |-> NULL, path |-> ex.path, grew |-> FALSE]
           ELSE LET r == ht_set_entry(h, ex.entries, ex.capacity, key, value, TRUE, len,
                                      strdup_ok)
                IN  [entries |-> r.entries, capacity |-> ex.capacity, length |-> r.length,
                     array |-> ex.array, released |-> ex.released, heap |-> r.heap,
                     ret |-> r.ret, path |-> r.path, grew |-> grow]

\* ht_set looking the key up first and growing the table for a new key only.
ht_set_grow_for_new_key(h, ents, cap, len, arr, table, key, value, assert_on, calloc_ok, strdup_ok) ==
  IF assert_on /\ value = NULL
  THEN [entries |-> ents, capacity |-> cap, length |-> len, array |-> arr,
        released |-> {}, heap |-> h, ret |-> NULL, path |-> "abort", grew |-> FALSE]
  ELSE IF table = NULL \/ key = NULL \/ value = NULL
  THEN [entries |-> ents, capacity |-> cap, length |-> len, array |-> arr,
        released |-> {}, heap |-> h, ret |-> NULL, path |-> "invalid", grew |-> FALSE]
  ELSE LET grow == len >= cap \div 2 /\ ents[Probe(h, ents, cap, key)].key = NULL
           ex   == IF grow THEN ht_expand(h, ents, cap, arr, calloc_ok)
                   ELSE [ok |-> TRUE, entries |-> ents, capacity |-> cap, array |-> arr,
                         released |-> {}, path |-> "none"]
       IN  IF ~ex.ok
           THEN [entries |-> ex.entries, capacity |-> ex.capacity, length |-> len,
                 array |-> ex.array, released |-> ex.released, heap |-> h,
                 ret |-> NULL, path |-> ex.path, grew |-> FALSE]
           ELSE LET r == ht_set_entry(h, ex.entries, ex.capacity, key, value, TRUE, len,
                                      strdup_ok)
                IN  [entries |-> r.entries, capacity |-> ex.capacity, length |-> r.length,
                     array |-> ex.array, released |-> ex.released, heap |-> r.heap,
                     ret |-> r.ret, path |-> r.path, grew |-> grow]

(***************************************************************************)
(* ht_set(table, key, value) on the fields of the table.  assert_on says   *)
(* whether the build compiles assert() in (no NDEBUG); calloc_ok and       *)
(* strdup_ok are the outcomes of the allocations the call may make.        *)
(***************************************************************************)
ht_set(h, ents, cap, len, arr, table, key, value, assert_on, calloc_ok, strdup_ok) ==
  IF assert_on /\ value = NULL
  THEN \* assert(value != NULL) fails: abort()
       [entries |-> ents, capacity |-> cap, length |-> len, array |-> arr,
        released |-> {}, heap |-> h, ret |-> NULL, path |-> "abort", grew |-> FALSE]
  ELSE IF table = NULL \/ key = NULL \/ value = NULL
  THEN [entries |-> ents, capacity |-> cap, length |-> len, array |-> arr,
        released |-> {}, heap |-> h, ret |-> NULL, path |-> "invalid", grew |-> FALSE]
  ELSE LET grow == len >= cap \div 2
           ex   == IF grow THEN ht_expand(h, ents, cap, arr, calloc_ok)
                   ELSE [ok |-> TRUE, entries |-> ents, capacity |-> cap, array |-> arr,
                         released |-> {}, path |-> "none"]
       IN  IF ~ex.ok
           THEN [entries |-> ex.entries, capacity |-> ex.capacity, length |-> len,
                 array |-> ex.array, released |-> ex.released, heap |-> h,
                 ret |-> NULL, path |-> ex.path, grew |-> FALSE]
           ELSE LET r == ht_set_entry(h, ex.entries, ex.capacity, key, value, TRUE, len,
                                      strdup_ok)
                IN  [entries |-> r.entries, capacity |-> ex.capacity, length |-> r.length,
                     array |-> ex.array, released |-> ex.released, heap |-> r.heap,
                     ret |-> r.ret, path |-> r.path, grew |-> grow]

\* The loop of ht_destroy from slot i: free() of the key of every occupied
\* slot.
RECURSIVE DestroyLoop(_, _, _, _)
DestroyLoop(ents, cap, i, f) ==
  IF i >= cap THEN f
  ELSE DestroyLoop(ents, cap, i + 1,
                   IF ents[i].key # NULL THEN FreeAll(f, {ents[i].key}) ELSE f)

\* ht_destroy leaving the key copies alone.
ht_destroy_no_keys(table, ents, cap, arr, f) ==
  IF table = NULL THEN f
  ELSE FreeAll(FreeAll(f, {arr}), {table})

\* ht_destroy(table): the calls of free() after it, given the calls f
\* before it.  Nothing for a NULL table; else the keys, the entry array and
\* the table structure.
ht_destroy(table, ents, cap, arr, f) ==
  IF table = NULL THEN f
  ELSE FreeAll(FreeAll(DestroyLoop(ents, cap, 0, f), {arr}), {table})

(***************************************************************************)
(* The iterator.                                                           *)
(***************************************************************************)
ht_iterator(table) ==
  [_table |-> table, _index |-> 0, key |-> NULL, value |-> NULL]

\* The scan loop stopping one slot before the end of the array.
RECURSIVE NextLoop_short(_, _, _)
NextLoop_short(ents, cap, cursor) ==
  IF cursor._index < cap - 1
  THEN LET i == cursor._index
       IN  IF ents[i].key # NULL
           THEN [it |-> [cursor EXCEPT !._index = i + 1, !.key = ents[i].key,
                                       !.value = ents[i].value],
                 ret |-> true, slot |-> i]
           ELSE NextLoop_short(ents, cap, [cursor EXCEPT !._index = i + 1])
  ELSE [it |-> [cursor EXCEPT !.key = NULL, !.value = NULL], ret |-> false, slot |-> -1]

\* The scan loop that forgets to store the value of the entry it yields.
RECURSIVE NextLoop_keep_value(_, _, _)
NextLoop_keep_value(ents, cap, cursor) ==
  IF cursor._index < cap
  THEN LET i == cursor._index
       IN  IF ents[i].key # NULL
           THEN [it |-> [cursor EXCEPT !._index = i + 1, !.key = ents[i].key],
                 ret |-> true, slot |-> i]
           ELSE NextLoop_keep_value(ents, cap, [cursor EXCEPT !._index = i + 1])
  ELSE [it |-> [cursor EXCEPT !.key = NULL, !.value = NULL], ret |-> false, slot |-> -1]

\* The scan loop starting over from slot 0 once it has run off the array.
RECURSIVE NextLoop_rewind(_, _, _)
NextLoop_rewind(ents, cap, cursor) ==
  IF cursor._index < cap
  THEN LET i == cursor._index
       IN  IF ents[i].key # NULL
           THEN [it |-> [cursor EXCEPT !._index = i + 1, !.key = ents[i].key,
                                       !.value = ents[i].value],
                 ret |-> true, slot |-> i]
           ELSE NextLoop_rewind(ents, cap, [cursor EXCEPT !._index = i + 1])
  ELSE [it |-> [cursor EXCEPT !._index = 0, !.key = NULL, !.value = NULL],
        ret |-> false, slot |-> -1]

\* The scan loop of ht_next from cursor.  The result is the updated cursor
\* and the returned bool; `slot` is the slot a true result was read from.
RECURSIVE NextLoop(_, _, _)
NextLoop(ents, cap, cursor) ==
  IF cursor._index < cap
  THEN LET i == cursor._index
       IN  IF ents[i].key # NULL
           THEN [it |-> [cursor EXCEPT !._index = i + 1, !.key = ents[i].key,
                                       !.value = ents[i].value],
                 ret |-> true, slot |-> i]
           ELSE NextLoop(ents, cap, [cursor EXCEPT !._index = i + 1])
  ELSE [it |-> [cursor EXCEPT !.key = NULL, !.value = NULL], ret |-> false, slot |-> -1]

ht_next(ents, cap, cursor) ==
  IF cursor._table = NULL
  THEN [it |-> cursor, ret |-> false, slot |-> -1]
  ELSE NextLoop(ents, cap, cursor)

(***************************************************************************)
(* The binary tree.                                                        *)
(***************************************************************************)
\* malloc returns the next free node address.
NewNode(ns) == Cardinality(DOMAIN ns) + 1

\* The while loop of add, conventional way round: smaller values to the
\* left.
RECURSIVE AddLoop_smaller_left(_, _, _, _)
AddLoop_smaller_left(ns, cur, new, v) ==
  IF v < ns[cur].val
  THEN IF ns[cur].left = NULL
       THEN [ns EXCEPT ![cur].left = new]
       ELSE AddLoop_smaller_left(ns, ns[cur].left, new, v)
  ELSE IF ns[cur].right = NULL
       THEN [ns EXCEPT ![cur].right = new]
       ELSE AddLoop_smaller_left(ns, ns[cur].right, new, v)

\* The while loop of add from the node cur: a value smaller than the
\* node's goes to the right, any other to the left; the new node is hung
\* where the link is NULL.
RECURSIVE AddLoop(_, _, _, _)
AddLoop(ns, cur, new, v) ==
  IF v < ns[cur].val
  THEN IF ns[cur].right = NULL
       THEN [ns EXCEPT ![cur].right = new]
       ELSE AddLoop(ns, ns[cur].right, new, v)
  ELSE IF ns[cur].left = NULL
       THEN [ns EXCEPT ![cur].left = new]
       ELSE AddLoop(ns, ns[cur].left, new, v)

\* add(root, val).  The result of malloc is not tested: when it is NULL,
\* new->left = ... stores through a null pointer, which ends the program.
add(ns, r, v, malloc_ok) ==
  IF ~malloc_ok
  THEN [crashed |-> TRUE, nodes |-> ns, ret |-> NULL]
  ELSE LET new == NewNode(ns)
           fresh == [a \in DOMAIN ns \cup {new} |->
                       IF a = new THEN [val |-> v, left |-> NULL, right |-> NULL]
                       ELSE ns[a]]
       IN  IF r = NULL
           THEN [crashed |-> FALSE, nodes |-> fresh, ret |-> new]
           ELSE [crashed |-> FALSE, nodes |-> AddLoop(fresh, r, new, v), ret |-> r]

\* print_sorted(root): the values it prints, in order.
RECURSIVE print_sorted(_, _)
print_sorted(ns, r) ==
  IF r = NULL THEN << >>
  ELSE print_sorted(ns, ns[r].left) \o <<ns[r].val>> \o print_sorted(ns, ns[r].right)

(***************************************************************************)
(* The client.                                                             *)
(***************************************************************************)
Aborted == last.path = "abort"

\* ht_destroy has released the table: "After calling this, the table
\* pointer is invalid", and the client makes no further call.
Destroyed == TABLE \in freed

\* The program is running and the table is there.
Live == ~Aborted /\ ~Destroyed

Stored(k) == model[k] # NULL

\* The filler keys are inserted in list order: the next one is the first
\* that is not stored yet.
FillerAddr == (NProbe + 1)..NKeys

NextFiller == {k \in FillerAddr : ~Stored(k) /\ \A j \in FillerAddr : j < k => Stored(j)}

ClientKeys == (1..NProbe) \cup NextFiller

ValuesFor(k) == IF k \in FillerAddr THEN FillValues ELSE ProbeValues

Call(op, table, key, value, ret, path, grew) ==
  [op |-> op, table |-> table, key |-> key, value |-> value, ret |-> ret,
   path |-> path, grew |-> grew]

\* The state ht_create leaves, when its allocations succeed, in a build
\* with a size_t of `bits` bits.
Created(bits) ==
  /\ size_bits = bits
  /\ entries = EmptyEntries(INITIAL_CAPACITY)
  /\ capacity = INITIAL_CAPACITY
  /\ length = 0
  /\ array = FirstArray
  /\ frees = [a \in {} |-> 0]
  /\ heap = [x \in {} |-> << >>]
  /\ it = ht_iterator(NULL)
  /\ last = Call("create", NULL, NULL, NULL, TABLE, "none", FALSE)
  /\ model = [k \in KeyAddr |-> NULL]
  /\ mutated = "no"
  /\ yielded = << >>
  /\ nodes = [a \in {} |-> NULL]
  /\ root = NULL
  /\ added = << >>
  /\ printed = << >>
  /\ tree_pc = "adding"

Init == Created(SizeBits)

\* The same program built with a narrow size_t.
InitNarrow == \E bits \in NarrowWidths : Created(bits)

\* ht_set(table, key, value)
SetCall(table, key, value, assert_on, calloc_ok, strdup_ok) ==
  /\ Live
  /\ \E r \in {ht_set(heap, entries, capacity, length, array, table, key, value,
                      assert_on, calloc_ok, strdup_ok)} :
       /\ entries' = r.entries
       /\ capacity' = r.capacity
       /\ length' = r.length
       /\ array' = r.array
       /\ frees' = FreeAll(frees, r.released)
       /\ heap' = r.heap
       /\ last' = Call("set", table, key, value, r.ret, r.path, r.grew)
       /\ model' = IF r.ret # NULL THEN [model EXCEPT ![key] = value] ELSE model
       /\ mutated' = IF it._table = NULL THEN mutated
                     ELSE IF r.grew \/ mutated = "grown" THEN "grown"
                     ELSE "set"
  /\ yielded' = IF it._table = NULL THEN yielded ELSE << >>
  /\ UNCHANGED <<size_bits, it, treevars>>

\* The calls the client makes: any valid call on a key it may set, and one
\* call for each argument that can be absent.
ValidSetCalls == UNION {{<<TABLE, k, v>> : v \in ValuesFor(k)} : k \in ClientKeys}

InvalidSetCalls == {<<NULL, 1, 1>>, <<TABLE, NULL, 1>>, <<TABLE, 1, NULL>>}

\* A valid call asks the allocator for an entry array when it grows the
\* table, and may ask it for a key copy; an invalid one allocates nothing.
\* Whether assert is compiled in shows only for a NULL value.
Set ==
  \/ \E c \in ValidSetCalls, calloc_ok \in BOOLEAN, strdup_ok \in BOOLEAN :
       /\ (calloc_ok \/ length >= capacity \div 2)
       /\ SetCall(c[1], c[2], c[3], TRUE, calloc_ok, strdup_ok)
  \/ \E c \in InvalidSetCalls, assert_on \in BOOLEAN :
       /\ (assert_on \/ c[3] = NULL)
       /\ SetCall(c[1], c[2], c[3], assert_on, TRUE, TRUE)

\* ht_get(table, key)
GetCall(table, key) ==
  /\ Live
  /\ last' = Call("get", table, key, NULL, ht_get(heap, entries, capacity, table, key),
                  "none", FALSE)
  /\ UNCHANGED <<size_bits, tablevars, it, model, mutated, yielded, treevars>>

GetCalls == {<<TABLE, k>> : k \in {NULL} \cup ClientKeys} \cup {<<NULL, 1>>}

Get == \E c \in GetCalls : GetCall(c[1], c[2])

\* hti it = ht_iterator(table)
Iterator ==
  \E table \in {NULL, TABLE} :
    /\ Live
    /\ it' = ht_iterator(table)
    /\ mutated' = "no"
    /\ yielded' = << >>
    /\ last' = Call("iterator", table, NULL, NULL, table, "none", FALSE)
    /\ UNCHANGED <<size_bits, tablevars, model, treevars>>

\* ht_next(&it).  `last` tells a call on a cursor that has already returned
\* false ("again") from the others.
NextIt ==
  /\ Live
  /\ \E r \in {ht_next(entries, capacity, it)} :
       /\ it' = r.it
       /\ yielded' = IF r.ret = true /\ mutated = "no"
                     THEN Append(yielded, <<r.slot, r.it.key, r.it.value>>)
                     ELSE yielded
       /\ last' = Call("next", NULL, NULL, NULL, r.ret,
                       IF last.op = "next" /\ last.ret = false THEN "again" ELSE "none",
                       FALSE)
  /\ UNCHANGED <<size_bits, tablevars, model, mutated, treevars>>

\* ht_destroy(table)
Destroy ==
  \E table \in {NULL, TABLE} :
    /\ Live
    /\ frees' = ht_destroy(table, entries, capacity, array, frees)
    /\ last' = Call("destroy", table, NULL, NULL, NULL, "none", FALSE)
    /\ UNCHANGED <<size_bits, entries, capacity, length, array, heap, it, model, mutated,
                   yielded, treevars>>

\* The client does not call ht_set while it iterates (ht.h: "Don't call
\* ht_set during iteration"): it sets and gets while it holds no iterator
\* on the table, and that is when it destroys the table.
NoIteration == it._table = NULL

Next ==
  \/ (NoIteration /\ Set)
  \/ (NoIteration /\ Get)
  \/ (NoIteration /\ Destroy)
  \/ Iterator
  \/ NextIt

Spec == Init /\ [][Next]_vars

\* The program at the narrow widths of size_t.
SpecNarrow == InitNarrow /\ [][Next]_vars

\* The table after ht_create and the successful insertion of the first n
\* filler keys, in list order.
RECURSIVE Populated(_)
Populated(n) ==
  IF n = 0
  THEN [entries |-> EmptyEntries(INITIAL_CAPACITY), capacity |-> INITIAL_CAPACITY,
        length |-> 0, array |-> FirstArray, released |-> {}, heap |-> [x \in {} |-> << >>],
        ret |-> TABLE, path |-> "none", grew |-> FALSE]
  ELSE LET t == Populated(n - 1)
       IN  ht_set(t.heap, t.entries, t.capacity, t.length, t.array, TABLE, NProbe + n,
                  CHOOSE v \in FillValues : TRUE, TRUE, TRUE, TRUE)

\* The state in which the client that iterates and sets at once starts: the
\* table holds the first StartFill filler keys.
InitPopulated ==
  /\ size_bits = SizeBits
  /\ \E t \in {Populated(StartFill)} :
       /\ entries = t.entries
       /\ capacity = t.capacity
       /\ length = t.length
       /\ array = t.array
       /\ heap = t.heap
       /\ last = Call("set", TABLE, NProbe + StartFill, CHOOSE v \in FillValues : TRUE,
                      t.ret, t.path, t.grew)
  /\ frees = [a \in {} |-> 0]
  /\ it = ht_iterator(NULL)
  /\ model = [k \in KeyAddr |->
                IF k \in (NProbe + 1)..(NProbe + StartFill)
                THEN CHOOSE v \in FillValues : TRUE ELSE NULL]
  /\ mutated = "no"
  /\ yielded = << >>
  /\ nodes = [a \in {} |-> NULL]
  /\ root = NULL
  /\ added = << >>
  /\ printed = << >>
  /\ tree_pc = "adding"

\* A client that does call ht_set while it iterates, against the advice of
\* ht.h, on a table it keeps to MaxInterleavedLength keys.
NextInterleaved ==
  \/ (Set /\ length' <= MaxInterleavedLength)
  \/ Iterator
  \/ NextIt

SpecInterleaved == InitPopulated /\ [][NextInterleaved]_vars

\* root = add(root, val), as main does, for any value and either outcome
\* of malloc.
Add ==
  \E v \in TreeValues, malloc_ok \in BOOLEAN :
    /\ tree_pc = "adding"
    /\ Len(added) < MaxNodes
    /\ \E r \in {add(nodes, root, v, malloc_ok)} :
         IF r.crashed
         THEN tree_pc' = "crashed" /\ UNCHANGED <<nodes, root, added>>
         ELSE /\ nodes' = r.nodes
              /\ root' = r.ret
              /\ added' = Append(added, v)
              /\ tree_pc' = "adding"
    /\ UNCHANGED <<printed, htvars>>

\* print_sorted(root), the last thing main does.
PrintSorted ==
  /\ tree_pc = "adding"
  /\ printed' = print_sorted(nodes, root)
  /\ tree_pc' = "printed"
  /\ UNCHANGED <<nodes, root, added, htvars>>

NextTree == Add \/ PrintSorted

\* The tree program.
SpecTree == Init /\ [][NextTree]_vars

(***************************************************************************)
(* The properties.                                                         *)
(***************************************************************************)
\* What ht_get(table, key) returns for the client key k in this state.
Lookup(k) == ht_get(heap, entries, capacity, TABLE, k)

\* The key object stored for the client key k (NULL when none is).
KeyObjectIn(h, ents, cap, k) == ents[Probe(h, ents, cap, k)].key

KeyObject(k) == KeyObjectIn(heap, entries, capacity, k)

\* The home slot of the client key k.
Home(k) == HomeIndex(hash_key(Keys[k]), capacity)

OccupiedSlots == {i \in 0..(capacity - 1) : entries[i].key # NULL}

RECURSIVE IsPowerOfTwo(_)
IsPowerOfTwo(n) == n = 1 \/ (n > 1 /\ n % 2 = 0 /\ IsPowerOfTwo(n \div 2))

\* The step is a call of ht_set.
SetStep == last'.op = "set"

InvalidArgs(c) == c.table = NULL \/ c.key = NULL \/ c.value = NULL

\* C1: after any sequence of ht_set calls, with collisions and any number
\* of growths, ht_get returns for every key that was successfully set the
\* value of its most recent successful ht_set.
C1_RoundTrip == \A k \in KeyAddr : Stored(k) => Lookup(k) = model[k]

\* An insertion has just grown the table a second time; a stored key is
\* away from its home slot, and a probe key holds the second value.
C1_Witness ==
  /\ last.op = "set" /\ last.grew /\ last.path = "inserted"
  /\ capacity = 4 * INITIAL_CAPACITY
  /\ \E k \in KeyAddr : Stored(k) /\ KeyObject(k) # entries[Home(k)].key
  /\ \E k \in 1..NProbe : model[k] = 2

\* C2: ht_get returns NULL for every key that was never successfully set,
\* on an empty table and on a populated one, also when the key's home slot
\* and the slots after it hold other keys and the probe wraps around.
C2_MissReturnsNull == \A k \in KeyAddr : ~Stored(k) => Lookup(k) = NULL

\* ht_get has just missed "x2", whose home slot is the last of the array:
\* that slot and slot 0 are occupied by other keys, so the probe wrapped.
C2_Witness ==
  /\ last.op = "get" /\ last.table = TABLE /\ last.key = 2 /\ last.ret = NULL
  /\ ~Stored(2)
  /\ Home(2) = capacity - 1
  /\ entries[capacity - 1].key # NULL
  /\ entries[0].key # NULL

\* C3: a successful ht_set of a key that is already stored leaves
\* ht_length unchanged, makes ht_get return the new value, allocates no
\* key copy and returns the key object already stored for the key, which
\* stays the stored one.
C3_UpdateSemantics ==
  [][(SetStep /\ last'.ret # NULL /\ Stored(last'.key)) =>
       /\ ht_length(TABLE, length') = ht_length(TABLE, length)
       /\ ht_get(heap', entries', capacity', TABLE, last'.key) = last'.value
       /\ heap' = heap
       /\ last'.ret = KeyObject(last'.key)
       /\ KeyObjectIn(heap', entries', capacity', last'.key) = KeyObject(last'.key)]_vars

\* An update has just replaced the value of a stored key.
C3_Witness ==
  /\ last.op = "set" /\ last.path = "updated" /\ last.ret # NULL
  /\ last.value = 2 /\ model[last.key] = 2
  /\ length > 1

\* C4: ht_length equals the number of distinct keys successfully inserted
\* so far, which equals the number of occupied slots.
C4_CountAccuracy ==
  /\ ht_length(TABLE, length) = Cardinality({k \in KeyAddr : Stored(k)})
  /\ ht_length(TABLE, length) = Cardinality(OccupiedSlots)

\* A set has just failed for want of a key copy after growing the table,
\* and an earlier set updated a probe key.
C4_Witness ==
  /\ last.op = "set" /\ last.path = "strdup_failed" /\ last.grew
  /\ length * 2 = INITIAL_CAPACITY /\ capacity = 2 * INITIAL_CAPACITY
  /\ \E k \in 1..NProbe : model[k] = 2

\* C5: immediately after every successful ht_set, length * 2 <= capacity.
C5_LoadFactor == (last.op = "set" /\ last.ret # NULL) => length * 2 <= capacity

\* A successful insertion has just filled the table to exactly half.
C5_Witness ==
  /\ last.op = "set" /\ last.ret # NULL /\ last.path = "inserted"
  /\ length * 2 = capacity

\* C6: the capacity is a power of two in every state: 16 after ht_create,
\* changed only by an exact doubling inside a growth, kept when the growth
\* fails; so the home index of every key is a slot of the array (a
\* function of the key and the capacity, checked at every capacity the
\* table takes).
C6_CapacityPowerOfTwo ==
  [][/\ IsPowerOfTwo(capacity) /\ IsPowerOfTwo(capacity')
     /\ (last.op = "create" => capacity = INITIAL_CAPACITY)
     /\ capacity' # capacity => (capacity' = 2 * capacity /\ SetStep /\ last'.grew)
     /\ last'.path \in {"calloc_failed", "overflow"} => capacity' = capacity
     /\ (last.op = "create" \/ capacity' # capacity) =>
          \A k \in KeyAddr : /\ Home(k) \in 0..(capacity - 1)
                              /\ Home(k)' \in 0..(capacity' - 1)]_vars

\* The capacity has doubled twice.
C6_Witness ==
  /\ last.op = "set" /\ last.grew
  /\ capacity = 4 * INITIAL_CAPACITY

C8_GrowthFailureUnchanged ==
  [][(SetStep /\ last'.path = "calloc_failed") =>
       /\ last'.ret = NULL
       /\ UNCHANGED <<entries, capacity, length, array, heap>>
       /\ array' \notin freed'
       /\ \A k \in KeyAddr :
            Stored(k) => ht_get(heap', entries', capacity', TABLE, k) = model[k]]_vars

\* A growth of the 32-slot store has just failed.
C8_Witness ==
  /\ last.op = "set" /\ last.path = "calloc_failed" /\ last.ret = NULL
  /\ length = INITIAL_CAPACITY
  /\ capacity = 2 * INITIAL_CAPACITY

YieldedStr(i) == Str(heap, yielded[i][2])

\* C10: on a table that is not changed after ht_iterator, calling ht_next
\* until it returns false yields exactly ht_length pairs, from slots in
\* strictly increasing order, every stored key exactly once, each with the
\* value most recently set for it.
C10_IterationComplete ==
  (last.op = "next" /\ last.ret = false /\ it._table # NULL /\ mutated = "no") =>
    /\ Len(yielded) = ht_length(TABLE, length)
    /\ \A i, j \in 1..Len(yielded) : i < j => yielded[i][1] < yielded[j][1]
    /\ \A k \in KeyAddr :
         Cardinality({i \in 1..Len(yielded) : YieldedStr(i) = Keys[k]})
           = IF Stored(k) THEN 1 ELSE 0
    /\ \A i \in 1..Len(yielded), k \in KeyAddr :
         YieldedStr(i) = Keys[k] => yielded[i][3] = model[k]

\* An iteration over the table grown twice, holding every client key, has
\* just ended.
C10_Witness ==
  /\ last.op = "next" /\ last.ret = false /\ it._table # NULL /\ mutated = "no"
  /\ Len(yielded) = NKeys
  /\ capacity = 4 * INITIAL_CAPACITY

\* C11: exhausted is a terminal state of the cursor.  Once ht_next has
\* returned false for a cursor on a table, the cursor's key and value are
\* NULL and its index is the capacity, and a further ht_next returns false
\* and leaves the cursor as it is; on an empty table the first ht_next of a
\* new cursor returns false.
C11_ExhaustedTerminal ==
  /\ (last.op = "next" /\ last.ret = false /\ it._table # NULL) =>
       /\ it.key = NULL /\ it.value = NULL
       /\ it._index = capacity
       /\ ht_next(entries, capacity, it) = [it |-> it, ret |-> false, slot |-> -1]
  /\ (it = ht_iterator(TABLE) /\ length = 0) =>
       ht_next(entries, capacity, it).ret = false

\* ht_next has just been called again on a cursor that had already returned
\* false, after yielding every pair of a populated table.
C11_Witness ==
  /\ last.op = "next" /\ last.path = "again" /\ last.ret = false
  /\ it._table = TABLE
  /\ length > 1 /\ Len(yielded) = length

\* The entry arrays allocated so far: calloc has returned every address
\* from the first array down to the one in use.
AllocatedArrays == array..FirstArray

\* C12: ht_create, any ht_set calls, one ht_destroy: every key copy, every
\* entry array (the old ones at growth, the last one at destroy) and the
\* table structure are released exactly once, and no key string or value of
\* the caller is ever released.  Before ht_destroy exactly the outgrown
\* arrays have been released; after it, everything the table allocated.
C12_ReleasedExactlyOnce ==
  /\ \A a \in DOMAIN frees : frees[a] = 1
  /\ freed \cap (KeyAddr \cup Values) = {}
  /\ ~Destroyed => freed = AllocatedArrays \ {array}
  /\ Destroyed => freed = DOMAIN heap \cup AllocatedArrays \cup {TABLE}

\* The table has been destroyed after two growths, holding every key of
\* the client, some with an updated value.
C12_Witness ==
  /\ last.op = "destroy" /\ last.table = TABLE
  /\ Destroyed
  /\ capacity = 4 * INITIAL_CAPACITY
  /\ length = NKeys
  /\ Cardinality(freed) = NKeys + 4
  /\ \E k \in 1..NProbe : model[k] = 2

\* C13: a successful ht_set returns the key object stored in the key's slot,
\* which the table owns: a fresh copy of the key string on the first
\* insertion, never the caller's pointer, and the object already stored on
\* an update.  Until ht_destroy the key object stored for a key stays the
\* same object through every later call, growths included, and a growth
\* allocates no key: the only key copy a call makes is the one of a newly
\* inserted key, and no copy ever changes.
C13_KeyObjectIdentity ==
  [][~Destroyed' =>
       /\ (SetStep /\ last'.ret # NULL) =>
            /\ last'.ret = KeyObjectIn(heap', entries', capacity', last'.key)
            /\ last'.ret \notin KeyAddr
            /\ last'.ret \in DOMAIN heap'
            /\ heap'[last'.ret] = Keys[last'.key]
            /\ IF Stored(last'.key)
               THEN last'.ret = KeyObject(last'.key) /\ heap' = heap
               ELSE /\ last'.ret \notin DOMAIN heap
                    /\ DOMAIN heap' = DOMAIN heap \cup {last'.ret}
       /\ (SetStep /\ last'.ret = NULL) => heap' = heap
       /\ heap' # heap =>
            \A a \in DOMAIN heap : a \in DOMAIN heap' /\ heap'[a] = heap[a]
       /\ (entries' # entries \/ capacity' # capacity \/ heap' # heap) =>
            \A k \in KeyAddr :
              Stored(k) => KeyObjectIn(heap', entries', capacity', k) = KeyObject(k)]_vars

\* An update of a stored key has just grown the table a second time and
\* returned the key object stored for the key since its insertion.
C13_Witness ==
  /\ last.op = "set" /\ last.path = "updated" /\ last.grew
  /\ capacity = 4 * INITIAL_CAPACITY
  /\ last.ret = KeyObject(last.key)
  /\ last.ret = last.key + NKeys

\* Doubling the capacity wraps at the width of size_t.
DoublingOverflows == (capacity * 2) % (2 ^ size_bits) < capacity

\* C14: when doubling the capacity would overflow size_t (capacity * 2 mod
\* 2^w < capacity at the width w of the build), the growth fails: an ht_set
\* that has to grow the table returns NULL, and capacity, length, the entry
\* store, the key copies and the calls of free() are as they were.
C14_CapacityOverflow ==
  [][(SetStep /\ ~InvalidArgs(last') /\ length >= capacity \div 2 /\ DoublingOverflows) =>
       /\ last'.path = "overflow"
       /\ last'.ret = NULL
       /\ ~last'.grew
       /\ UNCHANGED <<entries, capacity, length, array, frees, heap, model>>]_vars

\* The doubling of a table that has grown before has just overflowed: the
\* capacity is half of what size_t can hold, and the table is half full.
C14_Witness ==
  /\ last.op = "set" /\ last.path = "overflow" /\ last.ret = NULL
  /\ size_bits \in NarrowWidths
  /\ 2 * capacity = 2 ^ size_bits
  /\ length * 2 = capacity
  /\ array # FirstArray

\* The number of slots the probe for the client key k may look at is the
\* capacity: the probe loop entered with its count at 1 gives up (-1) when
\* it would look at one slot more.
ProbeEnds(k) == ProbeLoop(heap, entries, capacity, k, Home(k), 1) # -1

\* C15: every ht_get, ht_set and ht_next terminates.  In every reachable
\* state the entry store has an empty slot, so the probe for any key ends at
\* a matching key or an empty slot within capacity steps; no call has run
\* into an endless probe; the rehash loop of the growth that is due after a
\* set ends as well; and the cursor's index never passes the capacity, which
\* bounds the scan loop of ht_next.
C15_ProbesTerminate ==
  /\ \E i \in 0..(capacity - 1) : entries[i].key = NULL
  /\ \A k \in KeyAddr : ProbeEnds(k)
  /\ last.path # "hang"
  /\ (last.op = "set" /\ length >= capacity \div 2 /\ 2 * capacity < 2 ^ size_bits) =>
       ~RehashHangs(heap, entries, capacity, 0, EmptyEntries(2 * capacity), 2 * capacity)
  /\ it._index <= capacity

\* A scan of a half-full table has just ended, the table holding a key
\* away from its home slot behind a probe chain that wraps around the end
\* of the array.
C15_Witness ==
  /\ last.op = "next" /\ last.ret = false /\ it._table = TABLE
  /\ it._index = capacity
  /\ length * 2 = capacity
  /\ \E k \in KeyAddr :
       /\ Stored(k) /\ Home(k) = capacity - 1
       /\ entries[0].key = KeyObject(k)

\* The step keeps every stored key in the slot it is in.
NoRelocation ==
  /\ array' = array
  /\ \A i \in 0..(capacity - 1) : entries[i].key # NULL => entries'[i].key = entries[i].key

CyclicPath(h, i) ==
  IF h <= i THEN h..i ELSE (h..(capacity - 1)) \cup (0..i)

\* The home index of the key stored in slot i.
HomeOfSlot(i) == HomeIndex(hash_key(Str(heap, entries[i].key)), capacity)

\* C17: the probe-chain invariant.  In every reachable state, for every
\* occupied slot i, every slot on the cyclic path from the home index of
\* the key in slot i up to i is occupied, so the linear probe for that key
\* from its home index reaches slot i before it reaches an empty slot.
C17_ProbeChain ==
  \A i \in OccupiedSlots :
    /\ HomeOfSlot(i) \in 0..(capacity - 1)
    /\ \A j \in CyclicPath(HomeOfSlot(i), i) : entries[j].key # NULL
    /\ Probe(heap, entries, capacity, entries[i].key) = i

\* In the table grown once, a key whose home is the last slot sits past
\* the end of the array, in a chain that wraps around to slot 0.
C17_Witness ==
  /\ capacity = 2 * INITIAL_CAPACITY /\ array # FirstArray
  /\ \E i \in OccupiedSlots :
       /\ HomeOfSlot(i) = capacity - 1
       /\ i < HomeOfSlot(i)
       /\ Cardinality(CyclicPath(HomeOfSlot(i), i)) >= 2

\* C18: in every reachable state no key is stored in more than one slot:
\* the occupied slots hold pairwise different key strings and pairwise
\* different key objects, also right after a growth has re-inserted every
\* entry.
C18_NoDuplicateKeys ==
  \A i, j \in OccupiedSlots :
    i # j => /\ entries[i].key # entries[j].key
             /\ Str(heap, entries[i].key) # Str(heap, entries[j].key)

\* An insertion has just grown the table, which holds two keys with the
\* same home slot and a key that has been set twice.
C18_Witness ==
  /\ last.op = "set" /\ last.grew /\ last.path = "inserted"
  /\ capacity = 2 * INITIAL_CAPACITY
  /\ \E i, j \in OccupiedSlots : i # j /\ HomeOfSlot(i) = HomeOfSlot(j)
  /\ \E k \in 1..NProbe : model[k] = 2

\* C19: ht_set and ht_next interleaved in any order on a table that has not
\* been destroyed.  ht_next reads the entry array the table points to at
\* the call, which has not been released, and only slots below the
\* capacity at the call; the pair it yields is in a slot of the table at
\* that moment, its key is a key copy the table owns and has not released,
\* and its value is the one ht_get returns for that key.
C19_InterleavedNextSafe ==
  [][(last'.op = "next" /\ it._table # NULL /\ ~Destroyed) =>
       /\ array \notin freed
       /\ it._index <= capacity
       /\ it'._index <= capacity
       /\ UNCHANGED tablevars
       /\ last'.ret = true =>
            LET i == it'._index - 1
            IN  /\ i \in it._index..(capacity - 1)
                /\ entries[i].key # NULL
                /\ entries[i] = [key |-> it'.key, value |-> it'.value]
                /\ it'.key \in DOMAIN heap
                /\ it'.key \notin freed
                /\ it'.key \notin KeyAddr
                /\ ht_get(heap, entries, capacity, TABLE, it'.key) = it'.value]_vars

\* ht_next has just yielded a pair from the upper half of the array of a
\* table that an ht_set has grown, releasing the array the iteration began
\* on, since ht_iterator.
C19_Witness ==
  /\ last.op = "next" /\ last.ret = true
  /\ mutated = "grown"
  /\ capacity = 2 * INITIAL_CAPACITY
  /\ FirstArray \in freed
  /\ it._index > INITIAL_CAPACITY
  /\ entries[it._index - 1] = [key |-> it.key, value |-> it.value]

\* How often the value v occurs in the sequence s.
Count(s, v) == Cardinality({i \in 1..Len(s) : s[i] = v})

NonDecreasing(s) == \A i, j \in 1..Len(s) : i < j => s[i] <= s[j]

NonIncreasing(s) == \A i, j \in 1..Len(s) : i < j => s[i] >= s[j]

\* C20, as claimed: add with a non-NULL root returns that root, and after
\* any sequence of add calls print_sorted prints every inserted value as
\* often as it was inserted, in ascending (non-decreasing) order.
C20_PrintsAscending ==
  [][/\ (root # NULL /\ tree_pc' # "crashed") => root' = root
     /\ tree_pc' = "printed" =>
          /\ Len(printed') = Len(added')
          /\ \A v \in TreeValues : Count(printed', v) = Count(added', v)
          /\ NonDecreasing(printed')]_vars

\* C20, amended: add with a non-NULL root returns that root, and after any
\* sequence of add calls print_sorted prints every inserted value as often
\* as it was inserted, in descending (non-increasing) order.
C20_PrintsDescending ==
  [][/\ (root # NULL /\ tree_pc' # "crashed") => root' = root
     /\ tree_pc' = "printed" =>
          /\ Len(printed') = Len(added')
          /\ \A v \in TreeValues : Count(printed', v) = Count(added', v)
          /\ NonIncreasing(printed')]_vars

\* print_sorted has printed a tree of MaxNodes nodes that has a value twice,
\* a left and a right subtree at the root, and values that differ.
C20_Witness ==
  /\ tree_pc = "printed"
  /\ Len(added) = MaxNodes /\ Len(printed) = MaxNodes
  /\ nodes[root].left # NULL /\ nodes[root].right # NULL
  /\ \E i, j \in 1..Len(added) : i < j /\ added[i] = added[j]
  /\ printed[1] > printed[Len(printed)]

====
